---- MODULE Spec2Model ----
(***************************************************************************)
(* State-machine model of university_management_system.py: the enrollment  *)
(* and notification bookkeeping between Course and Student, grade          *)
(* assignment, the GPA strategy and the UniversitySystem singleton.        *)
(***************************************************************************)
EXTENDS Integers, Sequences, FiniteSets, TLC

\* ---------------------------------------------------------------- bounds
\* Number of variables of the caller that may hold a UniversitySystem().
NumRefs == 2

\* ------------------------------------------------------- objects in play
\* UniversitySystem._instance = None (object ids count from 1)
NoInstance == 0

\* Student objects, identified by their person_id.
Students == {"S01", "S02"}
Teachers == {"T01"}
\* Course objects (object identities); two of them carry the same code.
Courses == {"c1", "c2", "c3"}
Codes == {"CSE110", "CSE101"}
course_code == [c \in Courses |-> IF c = "c3" THEN "CSE101" ELSE "CSE110"]
course_name ==
  [c \in Courses |-> CASE c = "c1" -> "Intro to Programming"
                       [] c = "c2" -> "Programming Lab"
                       [] OTHER    -> "Discrete Math"]
\* grades a teacher hands to assign_grade
Grades == {3, 4}
Refs == 1..NumRefs

VARIABLES
  students,    \* Course.students : per course, the roster list
  observers,   \* Course.observers: per course, the subscriber list
  courses,     \* Student.courses : per student, dict code -> course
  grades,      \* Student.grades  : per student, dict code -> grade
  instance,    \* UniversitySystem._instance: NoInstance or the id of the object
  registry,    \* heap of UniversitySystem objects: id -> its three dicts
  refs,        \* the caller's variables holding the result of UniversitySystem()
  lastOp,      \* the call made by the last step
  out,         \* what the last call wrote: update() deliveries and prints, in order
  ret          \* what the last call returned

vars == <<students, observers, courses, grades, instance, registry, refs,
          lastOp, out, ret>>
enrollVars == <<students, observers, courses, grades>>
uniVars == <<instance, registry, refs>>

\* ------------------------------------------------------------- helpers
\* Python `x in list`
InSeq(x, seq) == \E i \in 1..Len(seq) : seq[i] = x
\* number of occurrences of x in a list
Count(x, seq) == Cardinality({i \in 1..Len(seq) : seq[i] = x})
\* Python `list.remove(x)`: drops the first occurrence
ListRemove(seq, x) ==
  LET i == CHOOSE k \in 1..Len(seq) :
             seq[k] = x /\ \A j \in 1..(k - 1) : seq[j] # x
  IN  [k \in 1..(Len(seq) - 1) |-> IF k < i THEN seq[k] ELSE seq[k + 1]]
\* A dict is a function on its keys.
EmptyDict == <<>>
\* d[k] = v
DictSet(d, k, v) == [x \in DOMAIN d \cup {k} |-> IF x = k THEN v ELSE d[x]]
\* d.pop(k, None) / d.pop(k) of a present key
DictPop(d, k) == [x \in DOMAIN d \ {k} |-> d[x]]
IsPrefix(a, b) == Len(a) <= Len(b) /\ \A i \in 1..Len(a) : a[i] = b[i]

Call(op, args) == [op |-> op, args |-> args]
\* a call that returns nothing
NoValue == <<>>

\* ------------------------------------------------------- Student.update
\* Student.update prints the message tagged with the student; `out` keeps it
\* as a delivery to that student.
update(s, message) == <<"Notification", s, message>>
Printed(text) == <<"print", text>>

\* The objects of the enrollment bookkeeping as one value, so that a method
\* that calls other methods is the composition of their effects.
Heap ==
  [students |-> students, observers |-> observers,
   courses |-> courses, grades |-> grades]
Done(h, o) == [h |-> h, out |-> o]

\* ------------------------------------------------------------- Course
attach(obs, observer) ==
  IF ~InSeq(observer, obs) THEN Append(obs, observer) ELSE obs

\* Variant: only the subscriber attached last is told.
notify_OnlyLast(obs, message) ==
  IF obs = <<>> THEN <<>> ELSE <<update(obs[Len(obs)], message)>>

notify(obs, message) == [i \in 1..Len(obs) |-> update(obs[i], message)]

\* Variant: the roster check is missing, so a second add appends again.
Course_add_student_NoCheck(h, c, student) ==
  LET h1 == [h EXCEPT !.students[c] = Append(@, student)]
      h2 == [h1 EXCEPT !.observers[c] = attach(@, student)]
  IN  Done(h2, notify(h2.observers[c], <<"Enrolled in", course_name[c]>>))

Course_add_student(h, c, student) ==
  IF ~InSeq(student, h.students[c])
  THEN LET h1 == [h EXCEPT !.students[c] = Append(@, student)]
           h2 == [h1 EXCEPT !.observers[c] = attach(@, student)]
       IN  Done(h2, notify(h2.observers[c], <<"Enrolled in", course_name[c]>>))
  ELSE Done(h, <<>>)

\* Variant: removal from the roster also unsubscribes the student.
Course_remove_student_Unsubscribes(h, c, student) ==
  IF InSeq(student, h.students[c])
  THEN LET h1 == [h EXCEPT !.students[c] = ListRemove(@, student)]
           h2 == [h1 EXCEPT !.observers[c] = ListRemove(@, student)]
       IN  Done(h2, notify(h2.observers[c], <<"Dropped from", course_name[c]>>))
  ELSE Done(h, <<>>)

Course_remove_student(h, c, student) ==
  IF InSeq(student, h.students[c])
  THEN LET h1 == [h EXCEPT !.students[c] = ListRemove(@, student)]
       IN  Done(h1, notify(h1.observers[c], <<"Dropped from", course_name[c]>>))
  ELSE Done(h, <<>>)

\* ------------------------------------------------------------ Student
\* Variant: no "already enrolled" check.
Student_add_course_NoCheck(h, s, c) ==
  Course_add_student(
    [h EXCEPT !.courses[s] = DictSet(@, course_code[c], c)], c, s)

Student_add_course(h, s, c) ==
  IF course_code[c] \notin DOMAIN h.courses[s]
  THEN Course_add_student(
         [h EXCEPT !.courses[s] = DictSet(@, course_code[c], c)], c, s)
  ELSE Done(h, <<Printed("Already enrolled in this course")>>)

\* Variant: the key is popped but the course is not told.
Student_drop_course_NoRemove(h, s, code) ==
  IF code \in DOMAIN h.courses[s]
  THEN Done([h EXCEPT !.courses[s] = DictPop(@, code)], <<>>)
  ELSE Done(h, <<Printed("Course not found")>>)

\* Variant: a drop of a code the student is not enrolled under discards the
\* grade left under that code.
Student_drop_course_ClearsStaleGrade(h, s, code) ==
  IF code \in DOMAIN h.courses[s]
  THEN Course_remove_student([h EXCEPT !.courses[s] = DictPop(@, code)],
                             h.courses[s][code], s)
  ELSE Done([h EXCEPT !.grades[s] = DictPop(@, code)],
            <<Printed("Course not found")>>)

\* Variant: the grade kept under the code is discarded as well.
Student_drop_course_ClearsGrade(h, s, code) ==
  LET h0 == [h EXCEPT !.grades[s] = DictPop(@, code)]
  IN  IF code \in DOMAIN h.courses[s]
      THEN Course_remove_student([h0 EXCEPT !.courses[s] = DictPop(@, code)],
                                 h.courses[s][code], s)
      ELSE Done(h0, <<Printed("Course not found")>>)

Student_drop_course(h, s, code) ==
  IF code \in DOMAIN h.courses[s]
  THEN Course_remove_student([h EXCEPT !.courses[s] = DictPop(@, code)],
                             h.courses[s][code], s)
  ELSE Done(h, <<Printed("Course not found")>>)

\* ---------------------------------------------------------- RegularGPA
RECURSIVE SumValues(_, _)
SumValues(d, keys) ==
  IF keys = {} THEN 0
  ELSE LET k == CHOOSE x \in keys : TRUE
       IN  d[k] + SumValues(d, keys \ {k})

RECURSIVE Gcd(_, _)
Gcd(a, b) == IF b = 0 THEN a ELSE Gcd(b, a % b)

\* a / b as the number it denotes: the fraction in lowest terms
Div(a, b) == LET g == Gcd(a, b) IN <<a \div g, b \div g>>

\* Variant: integer division.
calculate_FloorDiv(g) ==
  IF DOMAIN g = {} THEN <<0, 1>>
  ELSE <<SumValues(g, DOMAIN g) \div Cardinality(DOMAIN g), 1>>

\* RegularGPA.calculate over a grade dict
calculate(g) ==
  IF DOMAIN g = {} THEN <<0, 1>>
  ELSE Div(SumValues(g, DOMAIN g), Cardinality(DOMAIN g))

Student_calculate_gpa(h, s) == calculate(h.grades[s])

\* ------------------------------------------------------------ Teacher
\* Variant: no enrollment check.
Teacher_assign_grade_NoCheck(h, student, code, grade) ==
  Done([h EXCEPT !.grades[student] = DictSet(@, code, grade)],
       <<update(student, <<"Grade assigned for", grade, code>>)>>)

Teacher_assign_grade(h, student, code, grade) ==
  IF code \in DOMAIN h.courses[student]
  THEN Done([h EXCEPT !.grades[student] = DictSet(@, code, grade)],
            <<update(student, <<"Grade assigned for", grade, code>>)>>)
  ELSE Done(h, <<Printed("Student not enrolled in this course")>>)

\* --------------------------------------------------- UniversitySystem
EmptyRegistry ==
  [students |-> EmptyDict, teachers |-> EmptyDict, courses |-> EmptyDict]

\* Variant: every construction initialises the dicts again.
UniversitySystem_new_Reset(inst, reg) ==
  IF inst = NoInstance
  THEN [instance |-> Len(reg) + 1, registry |-> Append(reg, EmptyRegistry),
        obj |-> Len(reg) + 1]
  ELSE [instance |-> inst, registry |-> [reg EXCEPT ![inst] = EmptyRegistry],
        obj |-> inst]

\* UniversitySystem.__new__: the class attribute and the heap afterwards,
\* and the object handed back.
UniversitySystem_new(inst, reg) ==
  IF inst = NoInstance
  THEN [instance |-> Len(reg) + 1, registry |-> Append(reg, EmptyRegistry),
        obj |-> Len(reg) + 1]
  ELSE [instance |-> inst, registry |-> reg, obj |-> inst]

\* person_id of a student or teacher object, the key it is registered under
person_id(p) == p

Uni_add_student(reg, self, student) ==
  [reg EXCEPT ![self].students = DictSet(@, person_id(student), student)]
Uni_remove_student(reg, self, student_id) ==
  [reg EXCEPT ![self].students = DictPop(@, student_id)]
Uni_add_teacher(reg, self, teacher) ==
  [reg EXCEPT ![self].teachers = DictSet(@, person_id(teacher), teacher)]
Uni_remove_teacher(reg, self, teacher_id) ==
  [reg EXCEPT ![self].teachers = DictPop(@, teacher_id)]
Uni_add_course(reg, self, course) ==
  [reg EXCEPT ![self].courses = DictSet(@, course_code[course], course)]
Uni_remove_course(reg, self, code) ==
  [reg EXCEPT ![self].courses = DictPop(@, code)]

\* ------------------------------------------------------------ actions
SetHeap(h) ==
  /\ students' = h.students
  /\ observers' = h.observers
  /\ courses' = h.courses
  /\ grades' = h.grades

\* student.add_course(course)
AddCourse(s, c) ==
  LET r == Student_add_course(Heap, s, c)
  IN  /\ SetHeap(r.h)
      /\ out' = r.out
      /\ ret' = NoValue
      /\ lastOp' = Call("add_course", <<s, c>>)
      /\ UNCHANGED uniVars

\* student.drop_course(course_code)
DropCourse(s, code) ==
  LET r == Student_drop_course(Heap, s, code)
  IN  /\ SetHeap(r.h)
      /\ out' = r.out
      /\ ret' = NoValue
      /\ lastOp' = Call("drop_course", <<s, code>>)
      /\ UNCHANGED uniVars

\* course.attach(student)
Attach(c, s) ==
  /\ SetHeap([Heap EXCEPT !.observers[c] = attach(@, s)])
  /\ out' = <<>>
  /\ ret' = NoValue
  /\ lastOp' = Call("attach", <<c, s>>)
  /\ UNCHANGED uniVars

\* course.add_student(student), called directly
AddStudent(c, s) ==
  LET r == Course_add_student(Heap, c, s)
  IN  /\ SetHeap(r.h)
      /\ out' = r.out
      /\ ret' = NoValue
      /\ lastOp' = Call("add_student", <<c, s>>)
      /\ UNCHANGED uniVars

\* course.remove_student(student), called directly
RemoveStudent(c, s) ==
  LET r == Course_remove_student(Heap, c, s)
  IN  /\ SetHeap(r.h)
      /\ out' = r.out
      /\ ret' = NoValue
      /\ lastOp' = Call("remove_student", <<c, s>>)
      /\ UNCHANGED uniVars

\* teacher.assign_grade(student, course_code, grade)
AssignGrade(s, code, g) ==
  LET r == Teacher_assign_grade(Heap, s, code, g)
  IN  /\ SetHeap(r.h)
      /\ out' = r.out
      /\ ret' = NoValue
      /\ lastOp' = Call("assign_grade", <<s, code, g>>)
      /\ UNCHANGED uniVars

\* student.calculate_gpa()
CalculateGpa(s) ==
  /\ ret' = Student_calculate_gpa(Heap, s)
  /\ out' = <<>>
  /\ lastOp' = Call("calculate_gpa", <<s>>)
  /\ UNCHANGED <<enrollVars, uniVars>>

\* ref = UniversitySystem()
Construct(r) ==
  LET n == UniversitySystem_new(instance, registry)
  IN  /\ instance' = n.instance
      /\ registry' = n.registry
      /\ refs' = [refs EXCEPT ![r] = n.obj]
      /\ out' = <<>>
      /\ ret' = NoValue
      /\ lastOp' = Call("UniversitySystem", <<r>>)
      /\ UNCHANGED enrollVars

\* a method of the registry called through the caller's variable r
UniCall(r, op, arg, reg) ==
  /\ refs[r] # NoInstance
  /\ registry' = reg
  /\ out' = <<>>
  /\ ret' = NoValue
  /\ lastOp' = Call(op, <<r, arg>>)
  /\ UNCHANGED <<enrollVars, instance, refs>>

UniAddStudent(r, s) ==
  UniCall(r, "uni.add_student", s, Uni_add_student(registry, refs[r], s))
UniRemoveStudent(r, id) ==
  UniCall(r, "uni.remove_student", id, Uni_remove_student(registry, refs[r], id))
UniAddTeacher(r, t) ==
  UniCall(r, "uni.add_teacher", t, Uni_add_teacher(registry, refs[r], t))
UniRemoveTeacher(r, id) ==
  UniCall(r, "uni.remove_teacher", id, Uni_remove_teacher(registry, refs[r], id))
UniAddCourse(r, c) ==
  UniCall(r, "uni.add_course", c, Uni_add_course(registry, refs[r], c))
UniRemoveCourse(r, code) ==
  UniCall(r, "uni.remove_course", code, Uni_remove_course(registry, refs[r], code))

\* The __main__ block, run once when the process starts: it builds the
\* registry, registers student1, teacher1 and the course created as
\* CSE110, enrolls student1, grades under "CSE101" and prints the GPA.
\* (The listing prints of view_* and list_* read state only and are not
\* kept in `out`.)
Main ==
  /\ lastOp.op = "init"
  /\ LET n  == UniversitySystem_new(instance, registry)
         r1 == Uni_add_student(n.registry, n.obj, "S01")
         r2 == Uni_add_teacher(r1, n.obj, "T01")
         r3 == Uni_add_course(r2, n.obj, "c1")
         e  == Student_add_course(Heap, "S01", "c1")
         a  == Teacher_assign_grade(e.h, "S01", "CSE101", 4)
     IN  /\ instance' = n.instance
         /\ registry' = r3
         /\ refs' = [refs EXCEPT ![1] = n.obj]
         /\ SetHeap(a.h)
         /\ out' = e.out \o a.out
         /\ ret' = Student_calculate_gpa(a.h, "S01")
         /\ lastOp' = Call("main", <<>>)

Init ==
  /\ students = [c \in Courses |-> <<>>]
  /\ observers = [c \in Courses |-> <<>>]
  /\ courses = [s \in Students |-> EmptyDict]
  /\ grades = [s \in Students |-> EmptyDict]
  /\ instance = NoInstance
  /\ registry = <<>>
  /\ refs = [r \in Refs |-> NoInstance]
  /\ lastOp = Call("init", <<>>)
  /\ out = <<>>
  /\ ret = NoValue

\* Students enrolling and dropping through their own methods only.
NextEnroll ==
  \/ \E s \in Students, c \in Courses : AddCourse(s, c)
  \/ \E s \in Students, code \in Codes : DropCourse(s, code)

SpecEnroll == Init /\ [][NextEnroll]_vars

\* ... and callers that also use the Course methods directly, here on the
\* two course objects that carry the same code.
SameCode == {c \in Courses : course_code[c] = "CSE110"}
NextCourse ==
  \/ \E s \in Students, c \in SameCode : AddCourse(s, c)
  \/ \E s \in Students, c \in SameCode : DropCourse(s, course_code[c])
  \/ \E s \in Students, c \in SameCode : Attach(c, s)
  \/ \E s \in Students, c \in SameCode : AddStudent(c, s)
  \/ \E s \in Students, c \in SameCode : RemoveStudent(c, s)

SpecCourse == Init /\ [][NextCourse]_vars

\* The registry: constructions and calls through any of the references.
NextRegistry ==
  \/ \E r \in Refs : Construct(r)
  \/ \E r \in Refs, s \in Students : UniAddStudent(r, s)
  \/ \E r \in Refs, s \in Students : UniRemoveStudent(r, s)
  \/ \E r \in Refs, t \in Teachers : UniAddTeacher(r, t)
  \/ \E r \in Refs, t \in Teachers : UniRemoveTeacher(r, t)
  \/ \E r \in Refs, c \in Courses : UniAddCourse(r, c)
  \/ \E r \in Refs, k \in Codes : UniRemoveCourse(r, k)

SpecRegistry == Init /\ [][NextRegistry]_vars

\* The driver, then enrollment, grading and GPA queries in any order.
\* The student the teacher grades and asks the GPA of is student1.
Next ==
  \/ Main
  \/ \E s \in Students, c \in Courses : AddCourse(s, c)
  \/ \E s \in Students, code \in Codes : DropCourse(s, code)
  \/ \E code \in Codes, g \in Grades : AssignGrade("S01", code, g)
  \/ CalculateGpa("S01")

Spec == Init /\ [][Next]_vars

\* ================================================================ claims
NoDup(seq) == \A i, j \in 1..Len(seq) : seq[i] = seq[j] => i = j
SeqSet(seq) == {seq[i] : i \in 1..Len(seq)}
\* the deliveries of update() in `o` made to student s
Deliveries(o, s) == {i \in 1..Len(o) : o[i][1] = "Notification" /\ o[i][2] = s}
IsNotification(e) == e[1] = "Notification"
\* the number of keys under which dict d holds value v
Holds(d, v) == Cardinality({k \in DOMAIN d : d[k] = v})

\* C1: after any sequence of Student.add_course / Student.drop_course calls,
\* a student s is in course c's roster if and only if s's enrolled-courses
\* mapping holds c under c's course code.
C1_MembershipAgrees ==
  \A s \in Students, c \in Courses :
    InSeq(s, students[c]) <=>
      (course_code[c] \in DOMAIN courses[s] /\ courses[s][course_code[c]] = c)

C1_Witness ==
  /\ lastOp.op = "drop_course"
  /\ InSeq("S01", students["c2"])
  /\ InSeq("S02", observers["c2"])
  /\ ~InSeq("S02", students["c2"])
  /\ InSeq("S02", students["c3"])

\* C2 as stated: after every s.add_course(c), whatever s was enrolled in, c's
\* roster contains s exactly once and s's mapping contains c exactly once.
C2_Original ==
  lastOp.op = "add_course" =>
    LET s == lastOp.args[1]
        c == lastOp.args[2]
    IN  Count(s, students[c]) = 1 /\ Holds(courses[s], c) = 1

\* C2, amended: after s.add_course(c), if c's code was not a key of s's
\* mapping when the call was made, c's roster contains s exactly once and s's
\* mapping contains c exactly once, under c's code; if the code was already a
\* key, the call changes no mapping, roster or subscriber list.
C2_AddCourseByKey ==
  [][lastOp'.op = "add_course" =>
       LET s == lastOp'.args[1]
           c == lastOp'.args[2]
       IN  IF course_code[c] \notin DOMAIN courses[s]
           THEN /\ Count(s, students'[c]) = 1
                /\ Holds(courses'[s], c) = 1
                /\ courses'[s][course_code[c]] = c
           ELSE UNCHANGED <<courses, students, observers>>]_vars

C2_Witness ==
  /\ lastOp = Call("add_course", <<"S01", "c2">>)
  /\ InSeq("S01", students["c2"])
  /\ InSeq("S01", observers["c1"])
  /\ ~InSeq("S01", students["c1"])

\* C3: s.add_course(c) while s is already enrolled in c leaves c's roster
\* (size and order), the number of s's enrolled courses and c's subscriber
\* list unchanged, and emits no "Enrolled in" notification.
C3_EnrollIdempotent ==
  [][lastOp'.op = "add_course" =>
       LET s == lastOp'.args[1]
           c == lastOp'.args[2]
       IN  (course_code[c] \in DOMAIN courses[s]
            /\ courses[s][course_code[c]] = c) =>
             /\ students'[c] = students[c]
             /\ Cardinality(DOMAIN courses'[s]) = Cardinality(DOMAIN courses[s])
             /\ observers'[c] = observers[c]
             /\ \A i \in 1..Len(out') : ~IsNotification(out'[i])]_vars

C3_Witness ==
  /\ lastOp = Call("add_course", <<"S01", "c1">>)
  /\ out = <<Printed("Already enrolled in this course")>>
  /\ students["c1"] = <<"S02", "S01">>
  /\ courses["S01"]["CSE110"] = "c1"

\* C4: s.drop_course(code) with a code that is not a key of s's mapping
\* changes no enrolled courses, grades, roster, subscriber list or registry,
\* and delivers no notification.
C4_DropAbsentNoChange ==
  [][(lastOp'.op = "drop_course"
      /\ lastOp'.args[2] \notin DOMAIN courses[lastOp'.args[1]]) =>
       /\ UNCHANGED <<courses, grades, students, observers>>
       /\ UNCHANGED <<instance, registry, refs>>
       /\ \A i \in 1..Len(out') : ~IsNotification(out'[i])]_vars

C4_Witness ==
  /\ lastOp = Call("drop_course", <<"S01", "CSE101">>)
  /\ out = <<Printed("Course not found")>>
  /\ "CSE101" \in DOMAIN grades["S01"]
  /\ students["c1"] = <<"S01", "S02">>
  /\ instance # NoInstance
  /\ "S01" \in DOMAIN registry[instance].students

\* C5: Teacher.assign_grade(s, code, g) writes s.grades[code] = g and notifies
\* s only when code is a key of s's mapping; otherwise the grade mapping is
\* unchanged, s gets no notification and the GPA stays as it was (0.0 with no
\* grades), as in the driver's "CSE101" after enrolling under "CSE110".
C5_GradeNeedsEnrollment ==
  [][/\ lastOp'.op = "assign_grade" =>
          LET s == lastOp'.args[1]
              code == lastOp'.args[2]
              g == lastOp'.args[3]
          IN  IF code \in DOMAIN courses[s]
              THEN /\ DOMAIN grades'[s] = DOMAIN grades[s] \cup {code}
                   /\ grades'[s][code] = g
                   /\ \A k \in DOMAIN grades[s] \ {code} :
                        grades'[s][k] = grades[s][k]
                   /\ Cardinality(Deliveries(out', s)) = 1
              ELSE /\ grades' = grades
                   /\ Deliveries(out', s) = {}
                   /\ calculate(grades'[s]) = calculate(grades[s])
                   /\ (DOMAIN grades[s] = {} => calculate(grades'[s]) = <<0, 1>>)
     /\ lastOp'.op = "main" =>
          /\ DOMAIN courses'["S01"] = {"CSE110"}
          /\ grades'["S01"] = EmptyDict
          /\ ret' = <<0, 1>>]_vars

C5_Witness ==
  /\ lastOp = Call("assign_grade", <<"S01", "CSE101", 4>>)
  /\ out = <<Printed("Student not enrolled in this course")>>
  /\ DOMAIN courses["S01"] = {"CSE110"}
  /\ DOMAIN grades["S01"] = {"CSE110"}

\* C6: calculate_gpa returns 0.0 for an empty grade mapping and otherwise the
\* unweighted mean of the grade values (sum divided by count); with one course
\* graded 4, the GPA is 4.
C6_GpaIsMean ==
  lastOp.op = "calculate_gpa" =>
    LET g == grades[lastOp.args[1]]
        n == Cardinality(DOMAIN g)
    IN  /\ n = 0 => ret = <<0, 1>>
        /\ n > 0 => ret[2] > 0 /\ ret[1] * n = ret[2] * SumValues(g, DOMAIN g)
        /\ (n = 1 /\ \A k \in DOMAIN g : g[k] = 4) => ret = <<4, 1>>

C6_Witness ==
  /\ lastOp.op = "calculate_gpa"
  /\ DOMAIN grades["S01"] = {"CSE110", "CSE101"}
  /\ ret = <<7, 2>>

\* C7: every construction of UniversitySystem yields the same registry object;
\* the first initialises empty mappings and no later one resets them, so all
\* references always show the same entities.
C7_Singleton ==
  [][/\ \A r1, r2 \in Refs :
          (refs'[r1] # NoInstance /\ refs'[r2] # NoInstance) =>
            /\ refs'[r1] = refs'[r2]
            /\ registry'[refs'[r1]] = registry'[refs'[r2]]
     /\ lastOp'.op = "UniversitySystem" =>
          IF instance = NoInstance
          THEN registry'[refs'[lastOp'.args[1]]] = EmptyRegistry
          ELSE /\ registry' = registry
               /\ instance' = instance
               /\ refs'[lastOp'.args[1]] = instance]_vars

C7_Witness ==
  /\ lastOp = Call("UniversitySystem", <<2>>)
  /\ refs[1] # NoInstance
  /\ refs[2] = refs[1]
  /\ DOMAIN registry[refs[2]].students = {"S01"}
  /\ DOMAIN registry[refs[2]].courses = {"CSE110"}

\* C8: every call that changes a course's roster delivers exactly one message
\* to every subscriber of that course, in subscription order: "Enrolled in
\* {name}" on an addition (the joining student included), "Dropped from
\* {name}" on a removal; so every student on the roster is told once.
Broadcast(c, kind) ==
  out' = [i \in 1..Len(observers'[c]) |->
            <<"Notification", observers'[c][i], <<kind, course_name[c]>>>>]

C8_RosterChangeBroadcast ==
  [][\A c \in Courses :
       students'[c] # students[c] =>
         /\ IF Len(students'[c]) > Len(students[c])
            THEN /\ Broadcast(c, "Enrolled in")
                 /\ InSeq(students'[c][Len(students'[c])], observers'[c])
            ELSE Broadcast(c, "Dropped from")
         /\ IsPrefix(observers[c], observers'[c])
         /\ \A t \in SeqSet(observers'[c]) \cup SeqSet(students'[c]) :
              Cardinality(Deliveries(out', t)) = 1]_vars

C8_Witness ==
  /\ lastOp = Call("remove_student", <<"c1", "S02">>)
  /\ students["c1"] = <<"S01">>
  /\ out = <<update("S01", <<"Dropped from", "Intro to Programming">>),
             update("S02", <<"Dropped from", "Intro to Programming">>)>>

\* C9: a student removed from a roster stays a subscriber: the subscriber list
\* never shrinks, never holds duplicates and always contains the roster; the
\* removed student gets the "Dropped from" message of its own removal and
\* every later enrollment/drop message, and re-enrolling does not subscribe
\* it a second time.
C9_RemovedStaysSubscribed ==
  [][\A c \in Courses :
       /\ IsPrefix(observers[c], observers'[c])
       /\ NoDup(observers'[c])
       /\ SeqSet(students'[c]) \subseteq SeqSet(observers'[c])
       /\ \A s \in Students :
            (InSeq(s, students[c]) /\ ~InSeq(s, students'[c])) =>
              /\ InSeq(s, observers'[c])
              /\ \E i \in Deliveries(out', s) :
                   out'[i][3] = <<"Dropped from", course_name[c]>>
       /\ \A s \in Students :
            (InSeq(s, observers[c]) /\ students'[c] # students[c]) =>
              Cardinality(Deliveries(out', s)) = 1]_vars

C9_Witness ==
  /\ lastOp = Call("add_course", <<"S01", "c1">>)
  /\ observers["c1"] = <<"S01", "S02">>
  /\ students["c1"] = <<"S02", "S01">>
  /\ Len(out) = 2

\* C10: Student.drop_course leaves the grade mapping unchanged, so a grade
\* outlives the enrollment under its code and still counts in calculate_gpa.
C10_DropKeepsGrades ==
  [][/\ lastOp'.op = "drop_course" =>
          /\ grades' = grades
          /\ \A s \in Students :
               Student_calculate_gpa(Heap', s) = Student_calculate_gpa(Heap, s)
     /\ lastOp'.op = "calculate_gpa" =>
          LET g == grades[lastOp'.args[1]]
          IN  DOMAIN g # {} =>
                ret'[1] * Cardinality(DOMAIN g) = ret'[2] * SumValues(g, DOMAIN g)
    ]_vars

C10_Witness ==
  /\ lastOp.op = "calculate_gpa"
  /\ DOMAIN courses["S01"] = {"CSE110"}
  /\ DOMAIN grades["S01"] = {"CSE110", "CSE101"}
  /\ grades["S01"]["CSE101"] = 3
  /\ ret = <<7, 2>>
====
